---- MODULE Spec2Model ----
(***************************************************************************)
(* Model of the Laser Scan Micrometer reader: the six-band classifier      *)
(* (lsm6200/processing.py), the threshold classifier                       *)
(* (lsm6200/classifier.py), the CSV session logger                         *)
(* (lsm6200/logging_utils.py) and the live read sessions (gui.py, run.py). *)
(*                                                                         *)
(* Decimal quantities are integers counting units of 10^-5 (the device's   *)
(* 5-decimal resolution): 0.110 is 11000, 0.1175 is 11750.                 *)
(***************************************************************************)
EXTENDS Integers, Sequences, FiniteSets, TLC

VARIABLES
  parse,      \* a call of parse_line: its arguments and outcome
  proc,       \* a call of process_value, round_half_up or truncate_to_decimals
  bins,       \* a call of classify_six_bins: its arguments and outcome
  cls,        \* a call of classify_value: its arguments and outcome
  disk,       \* the CSV file as stored: its records, header first
  lg,         \* the CsvLogger of the logging session
  call,       \* the operation the logging session performed last
  onlyAppend, \* history: every logger so far was configured with append
  program,    \* the program that runs: "gui" (gui.py), "cli" (run.py) or none
  mw,         \* MainWindow: worker and thread references, buttons, live_connected,
              \* the simulation session and the position of on_run
  workers,    \* the SerialWorker objects with their threads, by order of creation
  events,     \* signals queued for the GUI thread, oldest first
  cli         \* run.py main: its position, handles and return code

parseVars == <<parse>>
procVars == <<proc>>
binsVars == <<bins>>
clsVars == <<cls>>
logVars == <<disk, lg, call, onlyAppend>>
liveVars == <<program, mw, workers, events, cli>>
vars == <<parse, proc, bins, cls, disk, lg, call, onlyAppend, program, mw, workers, events, cli>>

----------------------------------------------------------------------------
(* Python floats are IEEE-754 binary64.  A float is a sign and a magnitude; *)
(* the magnitude is an exact integer count of 2^-70, held as little-endian  *)
(* limbs of 15 bits, so that every float in [10^-5, 0.32768) is exact.      *)

Base == 2^15
Limbs == 1..6
MantBits == 53

BigZero == <<0, 0, 0, 0, 0, 0>>
BigOne == <<1, 0, 0, 0, 0, 0>>
\* 2^65 = 2^70 / 2^5: 10^-5 = 2^-5 * 5^-5, so n * 10^-5 = n * 2^65 / 3125 units
BigPow65 == <<0, 0, 0, 0, 32, 0>>

RECURSIVE BigAddFrom(_, _, _, _)
BigAddFrom(a, b, i, carry) ==
  IF i > 6 THEN <<>>
  ELSE LET s == a[i] + b[i] + carry
       IN  <<s % Base>> \o BigAddFrom(a, b, i + 1, s \div Base)

BigAdd(a, b) == BigAddFrom(a, b, 1, 0)

RECURSIVE BigSubFrom(_, _, _, _)
BigSubFrom(a, b, i, borrow) ==
  IF i > 6 THEN <<>>
  ELSE LET s == a[i] - b[i] - borrow
       IN  <<(s + Base) % Base>> \o BigSubFrom(a, b, i + 1, IF s < 0 THEN 1 ELSE 0)

\* a - b for a >= b
BigSub(a, b) == BigSubFrom(a, b, 1, 0)

RECURSIVE BigCmpFrom(_, _, _)
BigCmpFrom(a, b, i) ==
  IF i = 0 THEN 0
  ELSE IF a[i] > b[i] THEN 1
  ELSE IF a[i] < b[i] THEN -1
  ELSE BigCmpFrom(a, b, i - 1)

BigCmp(a, b) == BigCmpFrom(a, b, 6)

RECURSIVE BigMulFrom(_, _, _, _)
BigMulFrom(a, k, i, carry) ==
  IF i > 6 THEN <<>>
  ELSE LET s == a[i] * k + carry
       IN  <<s % Base>> \o BigMulFrom(a, k, i + 1, s \div Base)

BigMulSmall(a, k) == BigMulFrom(a, k, 1, 0)

RECURSIVE BigDivFrom(_, _, _, _)
BigDivFrom(a, d, i, rem) ==
  IF i = 0 THEN [q |-> <<>>, r |-> rem]
  ELSE LET cur == rem * Base + a[i]
           rest == BigDivFrom(a, d, i - 1, cur % d)
       IN  [q |-> rest.q \o <<cur \div d>>, r |-> rest.r]

BigDivSmall(a, d) == BigDivFrom(a, d, 6, 0)

RECURSIVE Bits(_)
Bits(n) == IF n = 0 THEN 0 ELSE 1 + Bits(n \div 2)

BitLen(a) ==
  LET nz == {i \in Limbs : a[i] # 0}
  IN  IF nz = {} THEN 0
      ELSE LET t == CHOOSE i \in nz : \A j \in nz : j <= i
           IN  15 * (t - 1) + Bits(a[t])

\* a shifted right by k bits: rb is the last bit shifted out, st whether a bit
\* below it (or below a, when st is given) was set
RECURSIVE ShiftRound(_, _, _)
ShiftRound(a, k, st) ==
  IF k <= 15
  THEN LET h == BigDivSmall(a, 2^k)
           half == 2^(k-1)
       IN  [q |-> h.q, rb |-> h.r \div half, st |-> st \/ (h.r % half # 0)]
  ELSE LET h == BigDivSmall(a, Base)
       IN  ShiftRound(h.q, k - 15, st \/ (h.r # 0))

RECURSIVE BigShl(_, _)
BigShl(a, k) ==
  IF k <= 14 THEN BigMulSmall(a, 2^k) ELSE BigShl(BigMulSmall(a, 2^14), k - 14)

\* round to 53 significant bits, ties to even; sticky: a nonzero part lies below a
RoundSig(a, sticky) ==
  LET drop == BitLen(a) - MantBits
  IN  IF drop <= 0 THEN a
      ELSE LET sh == ShiftRound(a, drop, sticky)
               up == sh.rb = 1 /\ (sh.st \/ sh.q[1] % 2 = 1)
           IN  BigShl(IF up THEN BigAdd(sh.q, BigOne) ELSE sh.q, drop)

\* the float nearest to the decimal n * 10^-5: float("0.11000"), a float literal
FromDecimal(n) ==
  LET m == IF n < 0 THEN -n ELSE n
      d == BigDivSmall(BigMulSmall(BigPow65, m), 3125)
  IN  [neg |-> n < 0, mag |-> RoundSig(d.q, d.r # 0)]

FAdd(x, y) ==
  IF x.neg = y.neg
  THEN [neg |-> x.neg, mag |-> RoundSig(BigAdd(x.mag, y.mag), FALSE)]
  ELSE LET c == BigCmp(x.mag, y.mag)
       IN  IF c = 0 THEN [neg |-> FALSE, mag |-> BigZero]
           ELSE IF c > 0
           THEN [neg |-> x.neg, mag |-> RoundSig(BigSub(x.mag, y.mag), FALSE)]
           ELSE [neg |-> y.neg, mag |-> RoundSig(BigSub(y.mag, x.mag), FALSE)]

FNeg(x) == IF x.mag = BigZero THEN x ELSE [neg |-> ~x.neg, mag |-> x.mag]

FSub(x, y) == FAdd(x, FNeg(y))

FAbs(x) == [neg |-> FALSE, mag |-> x.mag]

\* x <= y
FLe(x, y) ==
  IF x.neg # y.neg THEN x.neg
  ELSE IF x.neg THEN BigCmp(x.mag, y.mag) >= 0
  ELSE BigCmp(x.mag, y.mag) <= 0

FLt(x, y) == ~FLe(y, x)

----------------------------------------------------------------------------
(* lsm6200/processing.py: the six-band classifier *)

\* a decimal given in thousandths, as the literals 0.008, 0.003, ... are
Milli(k) == FromDecimal(k * 100)

\* @dataclass without frozen=True defines __eq__ and sets __hash__ to None
CategoryHashable == FALSE

Returned(code, how) == [raised |-> "", code |-> code, how |-> how]
Raised(exc) == [raised |-> exc, code |-> 0, how |-> "none"]

\* min(centers.items(), key=...) over the insertion order 2, 3, 4, 5: the first
\* entry whose distance no other entry undercuts
NearestCentre(v, standard) ==
  LET centers == <<[code |-> 2, c |-> FAdd(standard, Milli(5))],
                   [code |-> 3, c |-> standard],
                   [code |-> 4, c |-> FSub(standard, Milli(5))],
                   [code |-> 5, c |-> FSub(standard, Milli(10))]>>
      key(i) == FAbs(FSub(v, centers[i].c))
      best == CHOOSE i \in 1..4 :
                /\ \A j \in 1..4 : FLe(key(i), key(j))
                /\ \A j \in 1..(i-1) : FLt(key(i), key(j))
  IN  centers[best].code

\* the code of the first band whose comparison holds, 0 when none does
BandOf(v, standard) ==
  LET hi_limit == FAdd(standard, Milli(8))
      bin2_lo == FAdd(standard, Milli(3))
      bin2_hi == FAdd(standard, Milli(7))
      bin3_lo == FSub(standard, Milli(2))
      bin3_hi == FAdd(standard, Milli(2))
      bin4_lo == FSub(standard, Milli(7))
      bin4_hi == FSub(standard, Milli(3))
      bin5_lo == FSub(standard, Milli(12))
      bin5_hi == FSub(standard, Milli(8))
      lo_limit == FSub(standard, Milli(13))
  IN  IF FLe(hi_limit, v) THEN 1
      ELSE IF FLe(bin2_lo, v) /\ FLe(v, bin2_hi) THEN 2
      ELSE IF FLe(bin3_lo, v) /\ FLe(v, bin3_hi) THEN 3
      ELSE IF FLe(bin4_lo, v) /\ FLe(v, bin4_hi) THEN 4
      ELSE IF FLe(bin5_lo, v) /\ FLe(v, bin5_hi) THEN 5
      ELSE IF FLe(v, lo_limit) THEN 6
      ELSE 0

classify_six_bins(value_3dp, standard) ==
  LET band == BandOf(value_3dp, standard)
  IN  IF band # 0 THEN Returned(band, "band")
      \* centers = {cats[1]: ..., ...} hashes its Category keys
      ELSE IF ~CategoryHashable THEN Raised("TypeError")
      ELSE Returned(NearestCentre(value_3dp, standard), "closest")

----------------------------------------------------------------------------------------------------------------------------------------
(* lsm6200/classifier.py: the threshold classifier *)

\* Optional[float]: None, or a float held as its decimal
None == <<>>
Some(x) == <<x>>

\* str.lower() on the operator names the runs use
Lower(op) ==
  CASE op = "LT" -> "lt"
    [] op = "Between" -> "between"
    [] OTHER -> op

Result(verdict, reason) == [verdict |-> verdict, reason |-> reason]

\* classify_value with the upper end of between exclusive
classify_value_open_between(value, cfg) ==
  IF cfg.mode = "none" THEN Result("NONE", <<"Classification disabled">>)
  ELSE IF value = None THEN Result("UNKNOWN", <<"No numeric value parsed">>)
  ELSE IF cfg.mode = "threshold"
  THEN LET op == Lower(cfg.threshold.operator)
           v == value[1]
           lo == cfg.threshold.low
           hi == cfg.threshold.high
           verdict(ok) == IF ok THEN "PASS" ELSE "FAIL"
       IN  CASE op = "lt" -> Result(verdict(v < lo), <<v, "<", lo>>)
             [] op = "le" -> Result(verdict(v <= lo), <<v, "<=", lo>>)
             [] op = "gt" -> Result(verdict(v > hi), <<v, ">", hi>>)
             [] op = "ge" -> Result(verdict(v >= hi), <<v, ">=", hi>>)
             [] op = "eq" -> Result(verdict(v = lo), <<v, "==", lo>>)
             [] op = "between" ->
                  Result(verdict(lo <= v /\ v < hi), <<lo, "<=", v, "<=", hi>>)
             [] OTHER -> Result("UNKNOWN", <<"Unknown operator", cfg.threshold.operator>>)
  ELSE Result("UNKNOWN", <<"Unknown mode", cfg.mode>>)

\* classify_value looking for a missing value only in threshold mode
classify_value_none_in_threshold(value, cfg) ==
  IF cfg.mode = "none" THEN Result("NONE", <<"Classification disabled">>)
  ELSE IF cfg.mode = "threshold"
  THEN IF value = None THEN Result("UNKNOWN", <<"No numeric value parsed">>)
       ELSE classify_value_open_between(value, cfg)
  ELSE Result("UNKNOWN", <<"Unknown mode", cfg.mode>>)

\* classify_value failing the reading on an operator it does not know
classify_value_fail_unknown(value, cfg) ==
  IF cfg.mode = "none" THEN Result("NONE", <<"Classification disabled">>)
  ELSE IF value = None THEN Result("UNKNOWN", <<"No numeric value parsed">>)
  ELSE IF cfg.mode = "threshold"
  THEN LET op == Lower(cfg.threshold.operator)
           v == value[1]
           lo == cfg.threshold.low
           hi == cfg.threshold.high
           verdict(ok) == IF ok THEN "PASS" ELSE "FAIL"
       IN  CASE op = "lt" -> Result(verdict(v < lo), <<v, "<", lo>>)
             [] op = "le" -> Result(verdict(v <= lo), <<v, "<=", lo>>)
             [] op = "gt" -> Result(verdict(v > hi), <<v, ">", hi>>)
             [] op = "ge" -> Result(verdict(v >= hi), <<v, ">=", hi>>)
             [] op = "eq" -> Result(verdict(v = lo), <<v, "==", lo>>)
             [] op = "between" ->
                  Result(verdict(lo <= v /\ v <= hi), <<lo, "<=", v, "<=", hi>>)
             [] OTHER -> Result("FAIL", <<"Unknown operator", cfg.threshold.operator>>)
  ELSE Result("UNKNOWN", <<"Unknown mode", cfg.mode>>)

\* value, low and high are floats read from decimal text; on the 5-decimal grid
\* the nearest float is strictly increasing in the decimal, so the comparisons of
\* the floats are the comparisons of the decimals
classify_value(value, cfg) ==
  IF cfg.mode = "none" THEN Result("NONE", <<"Classification disabled">>)
  ELSE IF value = None THEN Result("UNKNOWN", <<"No numeric value parsed">>)
  ELSE IF cfg.mode = "threshold"
  THEN LET op == Lower(cfg.threshold.operator)
           v == value[1]
           lo == cfg.threshold.low
           hi == cfg.threshold.high
           verdict(ok) == IF ok THEN "PASS" ELSE "FAIL"
       IN  CASE op = "lt" -> Result(verdict(v < lo), <<v, "<", lo>>)
             [] op = "le" -> Result(verdict(v <= lo), <<v, "<=", lo>>)
             [] op = "gt" -> Result(verdict(v > hi), <<v, ">", hi>>)
             [] op = "ge" -> Result(verdict(v >= hi), <<v, ">=", hi>>)
             [] op = "eq" -> Result(verdict(v = lo), <<v, "==", lo>>)
             [] op = "between" ->
                  Result(verdict(lo <= v /\ v <= hi), <<lo, "<=", v, "<=", hi>>)
             [] OTHER -> Result("UNKNOWN", <<"Unknown operator", cfg.threshold.operator>>)
  ELSE Result("UNKNOWN", <<"Unknown mode", cfg.mode>>)

----------------------------------------------------------------------------
(* lsm6200/logging_utils.py: the CSV session logger *)

Blank == <<>>
BlankCats == <<Blank, Blank, Blank, Blank, Blank, Blank>>

\* one CSV record: its "No." cell, its six category cells and the number of
\* physical lines it takes (a quoted cell holding a line break spans two)
Header == [hdr |-> TRUE, no |-> 0, cats |-> BlankCats, lines |-> 1]
Row(no, cats, nl) == [hdr |-> FALSE, no |-> no, cats |-> cats, lines |-> 1 + nl]

\* f"{value_3dp:.3f}": the thousandth nearest to the float's exact value, written as
\* the count of thousandths
Fmt3(v) ==
  LET q == v \div 100
      r == v % 100
      d == BigDivSmall(BigMulSmall(BigPow65, v), 3125)
      c == BigCmp(FromDecimal(v).mag, d.q)
  IN  IF r < 50 THEN q
      ELSE IF r > 50 THEN q + 1
      ELSE IF c > 0 THEN q + 1                \* the float lies above the decimal tie
      ELSE IF c < 0 \/ d.r # 0 THEN q         \* the float lies below it
      ELSE IF q % 2 = 0 THEN q ELSE q + 1

RECURSIVE LineCount(_)
\* sum(1 for _ in rf): the physical lines of the file
LineCount(f) == IF f = <<>> THEN 0 ELSE f[1].lines + LineCount(Tail(f))

Max(a, b) == IF a >= b THEN a ELSE b

\* CsvLogger.__init__
CsvLogger(append) ==
  [append |-> append, file |-> FALSE, writer |-> FALSE, index |-> 1, buf |-> <<>>]

\* CsvLogger.__enter__ on the stored file d: the logger and the file afterwards
CsvLogger_enter(l, d) ==
  LET opened == IF l.append THEN d ELSE <<>>     \* mode "w" truncates
      tell == Len(opened)
  IN  IF ~l.append \/ tell = 0
      THEN [lg |-> [l EXCEPT !.file = TRUE, !.writer = TRUE, !.index = 1,
                             !.buf = <<Header>>],
            disk |-> opened]
      ELSE LET row_count == LineCount(opened)
               data_rows == Max(row_count - 1, 0)
           IN  [lg |-> [l EXCEPT !.file = TRUE, !.writer = TRUE,
                                 !.index = data_rows + 1, !.buf = <<>>],
                disk |-> opened]

\* the buffered rows reach the file
CsvLogger_flush(l, d) == [lg |-> [l EXCEPT !.buf = <<>>], disk |-> d \o l.buf]

\* CsvLogger.__exit__
CsvLogger_exit(l, d) ==
  IF l.file
  THEN [lg |-> [l EXCEPT !.file = FALSE, !.writer = FALSE, !.buf = <<>>],
        disk |-> d \o l.buf]
  ELSE [lg |-> l, disk |-> d]

\* log_categorized indexing the cells from the code itself: code 0 passes the
\* guard and lands in the last cell
log_categorized_zero_based(l, value_3dp, category_code, nl) ==
  IF ~l.writer THEN [lg |-> l, raised |-> "RuntimeError"]
  ELSE LET cats == IF value_3dp # None /\ 0 <= category_code /\ category_code <= 6
                   THEN [BlankCats EXCEPT ![IF category_code = 0 THEN 6 ELSE category_code]
                                             = <<Fmt3(value_3dp[1])>>]
                   ELSE BlankCats
       IN  [lg |-> [l EXCEPT !.buf = Append(l.buf, Row(l.index, cats, nl)),
                             !.index = l.index + 1],
            raised |-> ""]

\* CsvLogger.log_categorized; nl is the number of line breaks inside unit, reason
\* and raw
log_categorized(l, value_3dp, category_code, nl) ==
  IF ~l.writer THEN [lg |-> l, raised |-> "RuntimeError"]
  ELSE LET cats == IF value_3dp # None /\ 1 <= category_code /\ category_code <= 6
                   THEN [BlankCats EXCEPT ![category_code] = <<Fmt3(value_3dp[1])>>]
                   ELSE BlankCats
       IN  [lg |-> [l EXCEPT !.buf = Append(l.buf, Row(l.index, cats, nl)),
                             !.index = l.index + 1],
            raised |-> ""]

----------------------------------------------------------------------------
(* Floats read from and written as decimal text.  float(text) of a numeral   *)
(* of at most 15 significant digits is the double nearest to it, and str()   *)
(* of that double gives the numeral back in its shortest form; such a float  *)
(* is held as that shortest numeral: a sign, the significant digits (most    *)
(* significant first, no zero at either end) and the power of ten of the     *)
(* last digit.  0.1155 is [neg |-> FALSE, digs |-> <<1,1,5,5>>, exp |-> -4]. *)

Digits == <<"0", "1", "2", "3", "4", "5", "6", "7", "8", "9">>

IsDigit(c) == \E d \in 1..10 : Digits[d] = c
DigitVal(c) == (CHOOSE d \in 1..10 : Digits[d] = c) - 1

RECURSIVE StripLeading(_)
StripLeading(s) ==
  IF s # <<>> /\ Head(s) = 0 THEN StripLeading(Tail(s)) ELSE s

RECURSIVE TrailingZeros(_)
TrailingZeros(s) ==
  IF s # <<>> /\ s[Len(s)] = 0 THEN 1 + TrailingZeros(SubSeq(s, 1, Len(s) - 1)) ELSE 0

\* the float with the value (-1)^neg * digs * 10^exp
Dec(neg, digs, exp) ==
  LET lead == StripLeading(digs)
      z == TrailingZeros(lead)
      sig == SubSeq(lead, 1, Len(lead) - z)
  IN  [neg |-> neg, digs |-> sig, exp |-> IF sig = <<>> THEN 0 ELSE exp + z]

\* float(text) of the text of a numeral: optional sign, digits, optional
\* "." and digits
float(text) ==
  LET signed == text # <<>> /\ text[1] \in {"-", "+"}
      body == IF signed THEN Tail(text) ELSE text
      dots == {i \in 1..Len(body) : body[i] = "."}
      dot == IF dots = {} THEN Len(body) + 1 ELSE CHOOSE i \in dots : TRUE
      int == SubSeq(body, 1, dot - 1)
      frac == SubSeq(body, dot + 1, Len(body))
      all == int \o frac
  IN  Dec(signed /\ text[1] = "-", [i \in 1..Len(all) |-> DigitVal(all[i])], 0 - Len(frac))

----------------------------------------------------------------------------
(* lsm6200/protocols/mitutoyo6200.py: the line parser.  A text is a sequence *)
(* of characters, a line of bytes a sequence of byte values; a character     *)
(* outside ASCII is written by its code point ("U+03BC" is the Greek mu), a  *)
(* byte outside ASCII by its value ("0xCE").                                 *)

Letters == {"m", "M", "e"}
Signs == {"-", "+"}
Space == {" ", "\t", "\r", "\n"}
Ascii == Letters \cup Signs \cup Space \cup {"."} \cup {Digits[d] : d \in 1..10}

\* line.decode("utf-8", errors="replace"): 0xCE 0xBC is the two-byte form of
\* U+03BC; a byte that starts or continues no sequence becomes U+FFFD
RECURSIVE decode(_)
decode(line) ==
  IF line = <<>> THEN <<>>
  ELSE IF Head(line) \in Ascii THEN <<Head(line)>> \o decode(Tail(line))
  ELSE IF Head(line) = "0xCE" /\ Len(line) >= 2 /\ line[2] = "0xBC"
       THEN <<"U+03BC">> \o decode(Tail(Tail(line)))
  ELSE <<"U+FFFD">> \o decode(Tail(line))

\* str.strip()
RECURSIVE strip(_)
strip(text) ==
  IF text = <<>> THEN text
  ELSE IF Head(text) \in Space THEN strip(Tail(text))
  ELSE IF text[Len(text)] \in Space THEN strip(SubSeq(text, 1, Len(text) - 1))
  ELSE text

\* the last index of the run of digits that starts at i (i - 1 when text[i] is
\* no digit): \d+ takes as many as there are
RECURSIVE DigitsEnd(_, _)
DigitsEnd(text, i) ==
  IF i <= Len(text) /\ IsDigit(text[i]) THEN DigitsEnd(text, i + 1) ELSE i - 1

\* NUMBER_RE matched at position i: the last index of the match, 0 without one
NumberMatchAt(text, i) ==
  LET p == IF text[i] \in Signs THEN i + 1 ELSE i      \* [-+]?
      q == DigitsEnd(text, p)                            \* \d+
      r == IF q + 1 <= Len(text) /\ text[q + 1] = "."    \* (?:\.\d+)?
           THEN DigitsEnd(text, q + 2) ELSE 0
  IN  IF q < p THEN 0
      ELSE IF r >= q + 2 THEN r ELSE q

\* NUMBER_RE.search(text): the match at the leftmost position that has one, as
\* <<first, last>>; <<>> without a match
NUMBER_RE_search(text) ==
  LET starts == {i \in 1..Len(text) : NumberMatchAt(text, i) # 0}
  IN  IF starts = {} THEN <<>>
      ELSE LET i == CHOOSE s \in starts : \A o \in starts : s <= o
           IN  <<i, NumberMatchAt(text, i)>>

\* the character class of the unit pattern as the source file holds it:
\* a-z, A-Z, U+00CE and U+00BC
UnitClass == Letters \cup {"U+00CE", "U+00BC"}

\* re.search(r"([...]+)\s*$", text): the leftmost position from which a run of
\* the class, then white space only, reaches the end; group 1 is the run
unit_search(text) ==
  LET fits(i) == \E k \in i..Len(text) :
                    /\ \A j \in i..k : text[j] \in UnitClass
                    /\ \A j \in (k + 1)..Len(text) : text[j] \in Space
      starts == {i \in 1..Len(text) : fits(i)}
  IN  IF starts = {} THEN None
      ELSE LET i == CHOOSE s \in starts : \A o \in starts : s <= o
               k == CHOOSE e \in i..Len(text) :
                      /\ \A j \in i..e : text[j] \in UnitClass
                      /\ e = Len(text) \/ text[e + 1] \notin UnitClass
           IN  Some(SubSeq(text, i, k))

Measurement(raw, value, unit) == [raw |-> raw, value |-> value, unit |-> unit]

\* parse_line that drops a line without a numeral
parse_line_drop_text(line, expected_unit) ==
  LET text == strip(IF line.bytes THEN decode(line.data) ELSE line.data)
      m == NUMBER_RE_search(text)
      unit_match == unit_search(text)
  IN  IF text = <<>> \/ m = <<>> THEN None
      ELSE Some(Measurement(text, Some(float(SubSeq(text, m[1], m[2]))),
                            IF unit_match # None THEN unit_match ELSE expected_unit))

\* Mitutoyo6200Parser.parse_line: None, or Some(Measurement)
parse_line(line, expected_unit) ==
  LET text == strip(IF line.bytes THEN decode(line.data) ELSE line.data)
      m == NUMBER_RE_search(text)
      unit_match == unit_search(text)
  IN  IF text = <<>> THEN None
      ELSE IF m = <<>> THEN Some(Measurement(text, None, None))
      ELSE Some(Measurement(text, Some(float(SubSeq(text, m[1], m[2]))),
                            IF unit_match # None THEN unit_match ELSE expected_unit))

----------------------------------------------------------------------------
(* lsm6200/processing.py: the two-stage pipeline.  The decimal module works  *)
(* on a coefficient (its digits, most significant first) and an exponent.    *)

\* getcontext().prec = 12
Prec == 12

Zeros(k) == [i \in 1..k |-> 0]

RECURSIVE IncDigs(_)
\* the coefficient plus one
IncDigs(s) ==
  IF s = <<>> THEN <<1>>
  ELSE IF s[Len(s)] = 9 THEN IncDigs(SubSeq(s, 1, Len(s) - 1)) \o <<0>>
  ELSE SubSeq(s, 1, Len(s) - 1) \o <<s[Len(s)] + 1>>

\* the dropped digits against one half of the last digit kept: -1, 0 or 1
CompareHalf(rest) ==
  IF rest = <<>> \/ rest[1] < 5 THEN -1
  ELSE IF rest[1] > 5 THEN 1
  ELSE IF \A i \in 2..Len(rest) : rest[i] = 0 THEN 0 ELSE 1

\* the result of an arithmetic operation under the context: more than Prec
\* digits are rounded to Prec, ROUND_HALF_EVEN
ContextRound(d) ==
  LET n == Len(d.digs)
      keep == SubSeq(d.digs, 1, Prec)
      c == CompareHalf(SubSeq(d.digs, Prec + 1, n))
      up == c > 0 \/ (c = 0 /\ keep[Prec] % 2 = 1)
  IN  IF n <= Prec THEN d
      ELSE [digs |-> IF up THEN IncDigs(keep) ELSE keep, exp |-> d.exp + (n - Prec)]

\* the coefficient at the exponent target: digits below it are dropped,
\* ROUND_HALF_UP when half_up and ROUND_DOWN otherwise; above it zeros are added
Rescale(d, target, half_up) ==
  LET k == target - d.exp
      n == Len(d.digs)
      padded == IF k > n THEN Zeros(k - n) \o d.digs ELSE d.digs
      m == Len(padded)
      keep == SubSeq(padded, 1, m - k)
      rest == SubSeq(padded, m - k + 1, m)
  IN  IF k <= 0 THEN [digs |-> d.digs \o Zeros(0 - k), exp |-> target]
      ELSE [digs |-> IF half_up /\ rest[1] >= 5 THEN IncDigs(keep) ELSE keep,
            exp |-> target]

\* Decimal(str(abs(value)))
Decimal_abs(value) == [digs |-> value.digs, exp |-> value.exp]

Value(v) == [raised |-> "", v |-> v]
InvalidOperation == [raised |-> "InvalidOperation", v |-> Dec(FALSE, <<>>, 0)]

\* truncate_to_decimals: sign = 1 if value >= 0 else -1; the magnitude times
\* 10^decimals, rounded by the context, loses its fraction and is divided again
truncate_to_decimals(value, decimals) ==
  LET d == Decimal_abs(value)
      prod == ContextRound([digs |-> d.digs, exp |-> d.exp + decimals])
      truncated == IF prod.exp >= 0 THEN prod ELSE Rescale(prod, 0, FALSE)
  IN  Dec(value.neg /\ value.digs # <<>>, truncated.digs, truncated.exp - decimals)

\* round_half_up: Decimal(str(value)).quantize(10 ** -decimals, ROUND_HALF_UP);
\* quantize signals InvalidOperation when the result needs more than Prec digits
round_half_up(value, decimals) ==
  LET q == Rescale(Decimal_abs(value), 0 - decimals, TRUE)
  IN  IF Len(StripLeading(q.digs)) > Prec THEN InvalidOperation
      ELSE Value(Dec(value.neg, q.digs, q.exp))

RECURSIVE DigitText(_)
DigitText(s) == IF s = <<>> THEN <<>> ELSE <<Digits[Head(s) + 1]>> \o DigitText(Tail(s))

\* f"{raw:.5f}" of a float that has at most five decimals: the sign, the
\* integer digits, the point and five decimals
Format5(raw) ==
  LET q == Rescale(Decimal_abs(raw), -5, TRUE)
      all == IF Len(q.digs) < 6 THEN Zeros(6 - Len(q.digs)) \o q.digs ELSE q.digs
      int == SubSeq(all, 1, Len(all) - 5)
      frac == SubSeq(all, Len(all) - 4, Len(all))
  IN  (IF raw.neg THEN <<"-">> ELSE <<>>) \o DigitText(int) \o <<".">> \o DigitText(frac)

ProcessedValue(raw_5dp, cut_4dp, rounded_3dp) ==
  [raised |-> "", raw_5dp |-> raw_5dp, cut_4dp |-> cut_4dp, rounded_3dp |-> rounded_3dp]

\* process_value that rounds the raw value instead of the truncated one
process_value_round_raw(raw) ==
  LET raw_5dp == float(Format5(raw))
      cut_4dp == truncate_to_decimals(raw_5dp, 4)
      rounded_3dp == round_half_up(raw_5dp, 3)
  IN  IF rounded_3dp.raised # ""
      THEN [raised |-> rounded_3dp.raised, raw_5dp |-> raw_5dp, cut_4dp |-> cut_4dp,
            rounded_3dp |-> rounded_3dp.v]
      ELSE ProcessedValue(raw_5dp, cut_4dp, rounded_3dp.v)

\* process_value
process_value(raw) ==
  LET raw_5dp == float(Format5(raw))
      cut_4dp == truncate_to_decimals(raw_5dp, 4)
      rounded_3dp == round_half_up(cut_4dp, 3)
  IN  IF rounded_3dp.raised # ""
      THEN [raised |-> rounded_3dp.raised, raw_5dp |-> raw_5dp, cut_4dp |-> cut_4dp,
            rounded_3dp |-> rounded_3dp.v]
      ELSE ProcessedValue(raw_5dp, cut_4dp, rounded_3dp.v)

----------------------------------------------------------------------------
(* gui.py and run.py: the state of the live sessions *)

\* connections the GUI run may make
MaxSessions == 2
\* blocking reads a worker is followed through once its stop was requested
ReadCap == 2
\* clicks on RUN the GUI run may make
MaxRuns == 1

WorkerIds == 1..MaxSessions

\* SerialWorker.__init__, with the QThread it is moved to
SerialWorker ==
  [pc |-> "none", thread |-> "none", running |-> FALSE, ser |-> FALSE,
   lg |-> CsvLogger(TRUE), failed |-> FALSE, errored |-> FALSE,
   stopAsked |-> FALSE, lateReads |-> 0]

\* on_run between the entry and the exit of its "with CsvLogger(...) as log"
RunIdle == [pc |-> "idle", log |-> CsvLogger(TRUE), value |-> None, code |-> 0]

\* MainWindow.__init__ and _build_ui, the setup dialog not accepted; run is the
\* position of on_run, runs counts the clicks on RUN
MainWindow ==
  [worker |-> 0, thread |-> 0, live_connected |-> FALSE,
   btn_connect |-> TRUE, btn_disconnect |-> FALSE,
   session_started |-> FALSE, standard |-> 11000, btn_run |-> FALSE,
   run |-> RunIdle, runs |-> 0]

CliIdle ==
  [pc |-> "none", port |-> "", ser |-> FALSE, lg |-> CsvLogger(TRUE),
   failed |-> FALSE, ret |-> -1]

LiveIdle ==
  /\ program = "none"
  /\ mw = MainWindow
  /\ workers = [w \in WorkerIds |-> SerialWorker]
  /\ events = <<>>
  /\ cli = CliIdle

----------------------------------------------------------------------------
(* Runs of classify_six_bins *)

\* standards are the 3-decimal values 0.100 .. 0.100 + StdSpan thousandths
StdSpan == 20
\* readings lie within OffSpan half-thousandths of the standard
OffSpan == 30

Standards == {(100 + k) * 100 : k \in 0..StdSpan}
Offsets == {50 * k : k \in (0 - OffSpan)..OffSpan}

ParseIdle ==
  parse = [pc |-> "idle", line |-> [bytes |-> FALSE, data |-> <<>>],
           expected_unit |-> None, res |-> None]

ProcIdle ==
  proc = [pc |-> "idle", fn |-> "none", x |-> Dec(FALSE, <<>>, 0), n |-> 0,
          out |-> Value(Dec(FALSE, <<>>, 0)), again |-> Value(Dec(FALSE, <<>>, 0))]

BinsIdle == bins = [pc |-> "idle", v |-> 0, standard |-> 0, res |-> Returned(0, "none")]
ClsIdle ==
  cls = [pc |-> "idle", value |-> None, mode |-> "none", operator |-> "between",
         low |-> 0, high |-> 0, res |-> Result("NONE", <<>>)]
LogIdle ==
  /\ disk = <<>>
  /\ lg = CsvLogger(TRUE)
  /\ call = [op |-> "init", value |-> None, code |-> 0, nl |-> 0, raised |-> ""]
  /\ onlyAppend = TRUE

BinsInit ==
  /\ \E standard \in Standards, d \in Offsets :
       bins = [pc |-> "call", v |-> standard + d, standard |-> standard,
               res |-> Returned(0, "none")]
  /\ ParseIdle
  /\ ProcIdle
  /\ ClsIdle
  /\ LogIdle
  /\ LiveIdle

Classify ==
  /\ bins.pc = "call"
  /\ bins' = [bins EXCEPT !.pc = "done",
                !.res = classify_six_bins(FromDecimal(bins.v), FromDecimal(bins.standard))]
  /\ UNCHANGED <<parseVars, procVars, clsVars, logVars, liveVars>>

BinsNext == Classify

SpecBins == BinsInit /\ [][BinsNext]_vars

----------------------------------------------------------------------------
(* Runs of classify_value *)

\* readings are the 3-decimal values 0.099 .. 0.099 + Grid thousandths
Grid == 22

Readings == {9900 + 100 * k : k \in 0..Grid}
Lows == {10000, 11000}
Highs == {10000, 12000}
Modes == {"threshold", "none", "window", "ml"}
Operators == {"lt", "le", "gt", "ge", "eq", "between", "LT", "Between", "ne", ""}
KnownOperators == {"lt", "le", "gt", "ge", "eq", "between"}

ClsInit ==
  /\ \E value \in {Some(x) : x \in Readings} \cup {None}, mode \in Modes, operator \in Operators,
        low \in Lows, high \in Highs :
       cls = [pc |-> "call", value |-> value, mode |-> mode, operator |-> operator,
              low |-> low, high |-> high, res |-> Result("NONE", <<>>)]
  /\ ParseIdle
  /\ ProcIdle
  /\ BinsIdle
  /\ LogIdle
  /\ LiveIdle

ClassificationConfig(c) ==
  [mode |-> c.mode,
   threshold |-> [operator |-> c.operator, low |-> c.low, high |-> c.high]]

ClassifyValue ==
  /\ cls.pc = "call"
  /\ cls' = [cls EXCEPT !.pc = "done",
               !.res = classify_value(cls.value, ClassificationConfig(cls))]
  /\ UNCHANGED <<parseVars, procVars, binsVars, logVars, liveVars>>

ClsNext == ClassifyValue

SpecClassify == ClsInit /\ [][ClsNext]_vars

----------------------------------------------------------------------------
(* Logging sessions: loggers opened one after the other on the same path *)

\* a session stops writing once the file holds MaxRows data rows
MaxRows == 3
\* line breaks inside the text cells of one row
MaxBreaks == 1

LogValues == {None, Some(11000)}
LogCodes == {0, 1, 6, 7}

Did(op, value, code, nl, raised) ==
  [op |-> op, value |-> value, code |-> code, nl |-> nl, raised |-> raised]

LogInit ==
  /\ \E append \in BOOLEAN :
       /\ lg = CsvLogger(append)
       /\ onlyAppend = append
  /\ disk = <<>>
  /\ call = Did("init", None, 0, 0, "")
  /\ ParseIdle
  /\ ProcIdle
  /\ BinsIdle
  /\ ClsIdle
  /\ LiveIdle

\* CsvLogger(cfg) for the next session, once the previous one is closed
Construct(append) ==
  /\ ~lg.file
  /\ lg' = CsvLogger(append)
  /\ onlyAppend' = (onlyAppend /\ append)
  /\ call' = Did("init", None, 0, 0, "")
  /\ UNCHANGED <<disk, parseVars, procVars, binsVars, clsVars, liveVars>>

Enter ==
  /\ ~lg.file
  /\ LET e == CsvLogger_enter(lg, disk)
     IN  lg' = e.lg /\ disk' = e.disk
  /\ call' = Did("enter", None, 0, 0, "")
  /\ UNCHANGED <<onlyAppend, parseVars, procVars, binsVars, clsVars, liveVars>>

LogCategorized(value, code, nl) ==
  /\ Len(disk) + Len(lg.buf) <= MaxRows
  /\ LET r == log_categorized(lg, value, code, nl)
     IN  lg' = r.lg /\ call' = Did("log", value, code, nl, r.raised)
  /\ UNCHANGED <<disk, onlyAppend, parseVars, procVars, binsVars, clsVars, liveVars>>

\* the write buffer of the open file fills and is written out
Flush ==
  /\ lg.file /\ lg.buf # <<>>
  /\ LET f == CsvLogger_flush(lg, disk)
     IN  lg' = f.lg /\ disk' = f.disk
  /\ call' = Did("flush", None, 0, 0, "")
  /\ UNCHANGED <<onlyAppend, parseVars, procVars, binsVars, clsVars, liveVars>>

Exit ==
  /\ LET x == CsvLogger_exit(lg, disk)
     IN  lg' = x.lg /\ disk' = x.disk
  /\ call' = Did("exit", None, 0, 0, "")
  /\ UNCHANGED <<onlyAppend, parseVars, procVars, binsVars, clsVars, liveVars>>

LogNext ==
  \/ \E append \in BOOLEAN : Construct(append)
  \/ Enter
  \/ \E value \in LogValues, code \in LogCodes, nl \in 0..MaxBreaks :
       LogCategorized(value, code, nl)
  \/ Flush
  \/ Exit

SpecLogger == LogInit /\ [][LogNext]_vars

----------------------------------------------------------------------------
(* Runs of parse_line *)

\* the longest line tried, apart from the examples
MaxLen == 4

TextChars == {" ", "-", ".", "7", "m", "U+03BC"}
ByteVals == {" ", ".", "7", "m", "0xCE", "0xBC"}

SeqsUpTo(S, n) == UNION {[1..k -> S] : k \in 0..n}

\* "+0.01234 mm", and the same as the device sends it
ExampleText == <<"+", "0", ".", "0", "1", "2", "3", "4", " ", "m", "m">>
ExampleBytes == ExampleText \o <<"\r", "\n">>

Lines ==
  {[bytes |-> FALSE, data |-> t] : t \in SeqsUpTo(TextChars, MaxLen) \cup {ExampleText}}
    \cup {[bytes |-> TRUE, data |-> b] : b \in SeqsUpTo(ByteVals, MaxLen) \cup {ExampleBytes}}

\* Mitutoyo6200Parser(expected_unit)
ExpectedUnits == {None, Some(<<"m", "m">>)}

ParseInit ==
  /\ \E line \in Lines, expected_unit \in ExpectedUnits :
       parse = [pc |-> "call", line |-> line, expected_unit |-> expected_unit,
                res |-> None]
  /\ ProcIdle
  /\ BinsIdle
  /\ ClsIdle
  /\ LogIdle
  /\ LiveIdle

ParseLine ==
  /\ parse.pc = "call"
  /\ parse' = [parse EXCEPT !.pc = "done",
                 !.res = parse_line(parse.line, parse.expected_unit)]
  /\ UNCHANGED <<procVars, binsVars, clsVars, logVars, liveVars>>

ParseNext == ParseLine

SpecParse == ParseInit /\ [][ParseNext]_vars

----------------------------------------------------------------------------
(* Runs of process_value, round_half_up and truncate_to_decimals *)

\* the most integer digits of a reading
MaxIntDigits == 10
\* the largest number of decimals asked of round_half_up and truncate_to_decimals
MaxDecimals == 4

LongInt == <<1, 2, 3, 4, 5, 6, 7, 8, 9, 1, 2, 3>>
Nines == <<9, 9, 9, 9, 9, 9, 9, 9>>

IntParts == {SubSeq(LongInt, 1, k) : k \in 0..MaxIntDigits} \cup {Nines}
Fracs ==
  {<<1, d2, d3, d4, d5>> : d2 \in {1, 2}, d3 \in {4, 5, 9}, d4 \in {0, 4, 5, 9},
                            d5 \in {0, 5, 6}}
    \cup {<<9, 9, 9, 9, 9>>}

\* readings fixed at five decimals
ProcInputs == {Dec(neg, int \o frac, -5) : neg \in BOOLEAN, int \in IntParts, frac \in Fracs}
Decimals == 0..MaxDecimals

Negate(x) == [x EXCEPT !.neg = ~x.neg]

ProcInit ==
  /\ \E x \in ProcInputs, fn \in {"process_value", "round_half_up", "truncate_to_decimals"} :
       \E n \in IF fn = "process_value" THEN {3} ELSE Decimals :
         proc = [pc |-> "call", fn |-> fn, x |-> x, n |-> n,
                 out |-> Value(x), again |-> Value(x)]
  /\ ParseIdle
  /\ BinsIdle
  /\ ClsIdle
  /\ LogIdle
  /\ LiveIdle

\* pv = process_value(raw)
ProcessValue ==
  /\ proc.pc = "call" /\ proc.fn = "process_value"
  /\ proc' = [proc EXCEPT !.pc = "done", !.out = process_value(proc.x)]
  /\ UNCHANGED <<parseVars, binsVars, clsVars, logVars, liveVars>>

\* round_half_up(pv.raw_5dp, 3): the raw value rounded without the truncation
RoundRaw ==
  /\ proc.pc = "done" /\ proc.fn = "process_value"
  /\ proc' = [proc EXCEPT !.pc = "compared", !.again = round_half_up(proc.out.raw_5dp, 3)]
  /\ UNCHANGED <<parseVars, binsVars, clsVars, logVars, liveVars>>

\* round_half_up(x, n)
RoundHalfUp ==
  /\ proc.pc = "call" /\ proc.fn = "round_half_up"
  /\ proc' = [proc EXCEPT !.pc = "done", !.out = round_half_up(proc.x, proc.n)]
  /\ UNCHANGED <<parseVars, binsVars, clsVars, logVars, liveVars>>

\* round_half_up(-x, n)
RoundNegated ==
  /\ proc.pc = "done" /\ proc.fn = "round_half_up"
  /\ proc' = [proc EXCEPT !.pc = "compared",
                !.again = round_half_up(Negate(proc.x), proc.n)]
  /\ UNCHANGED <<parseVars, binsVars, clsVars, logVars, liveVars>>

\* truncate_to_decimals(x, n)
Truncate ==
  /\ proc.pc = "call" /\ proc.fn = "truncate_to_decimals"
  /\ proc' = [proc EXCEPT !.pc = "done",
                !.out = Value(truncate_to_decimals(proc.x, proc.n))]
  /\ UNCHANGED <<parseVars, binsVars, clsVars, logVars, liveVars>>

\* truncate_to_decimals of the result, with the same n
TruncateAgain ==
  /\ proc.pc = "done" /\ proc.fn = "truncate_to_decimals"
  /\ proc' = [proc EXCEPT !.pc = "compared",
                !.again = Value(truncate_to_decimals(proc.out.v, proc.n))]
  /\ UNCHANGED <<parseVars, binsVars, clsVars, logVars, liveVars>>

ProcNext ==
  \/ ProcessValue
  \/ RoundRaw
  \/ RoundHalfUp
  \/ RoundNegated
  \/ Truncate
  \/ TruncateAgain

SpecProcess == ProcInit /\ [][ProcNext]_vars

----------------------------------------------------------------------------
(* gui.py and run.py: the live sessions *)

Ports == {"", "COM3"}
\* what ser.readline() hands the loop: nothing within the timeout, a blank line, a
\* line without a numeral, a line with a reading, or a SerialException
ReadOutcomes == {"timeout", "blank", "text", "reading", "ioerror"}

\* CsvLogger defines log_categorized and no method named log
CsvLoggerHasLog == FALSE

\* a managed_serial whose finally leaves the port as it is
managed_serial_exit_leak(ser) == ser

\* managed_serial's finally: the port, when open, is closed
managed_serial_exit(ser) == FALSE

\* leaving "with managed_serial(...) as ser, CsvLogger(...) as csvlog": the logger
\* exits, then the port is closed
LeaveWith(s, d) ==
  LET x == CsvLogger_exit(s.lg, d)
  IN  [s |-> [s EXCEPT !.lg = x.lg, !.ser = managed_serial_exit(s.ser)],
       disk |-> x.disk]

\* the with statement entering CsvLogger after the port: the file opens, or
\* path.open raises and the port is closed again
EnterLog(s, d, ok) ==
  IF ok
  THEN LET e == CsvLogger_enter(s.lg, d)
       IN  [s |-> [s EXCEPT !.lg = e.lg], disk |-> e.disk]
  ELSE [s |-> [s EXCEPT !.ser = managed_serial_exit(s.ser), !.failed = TRUE],
        disk |-> d]

\* the loop body on what readline returned: "continue", or the exception raised
LoopBody(outcome) ==
  IF outcome = "ioerror" THEN "SerialException"
  ELSE IF outcome = "timeout" THEN "continue"        \* if not line: continue
  ELSE IF outcome = "blank" THEN "continue"          \* if not meas: continue
  ELSE IF ~CsvLoggerHasLog THEN "AttributeError"     \* csvlog.log(...)
  ELSE "continue"

Post(sig, w) == [sig |-> sig, w |-> w]

\* the standards the setup dialog may have stored (0.100, 0.110), and the
\* distances from the standard that sim.next_value() may draw
SimStandards == {10000, 11000}
SimOffsets == {0, 800}

RECURSIVE NatDigits(_)
NatDigits(n) == IF n = 0 THEN <<>> ELSE NatDigits(n \div 10) \o <<n % 10>>

RECURSIVE DigitsNat(_)
DigitsNat(s) == IF s = <<>> THEN 0 ELSE 10 * DigitsNat(SubSeq(s, 1, Len(s) - 1)) + s[Len(s)]

\* the float that is n * 10^-5, and the count of 10^-5 in a float that is
\* not negative and has at most five decimals
FloatOf(n) == Dec(FALSE, NatDigits(n), -5)
CountOf(d) == DigitsNat(d.digs \o Zeros(d.exp + 5))

\* what on_run has when it comes to the logging: the exception that ended it, or
\* pv.rounded_3dp and cat_res.category.code
RunResult(raised, value, code) == [raised |-> raised, value |-> value, code |-> code]

\* on_run: cat_res = classify_six_bins(pv.rounded_3dp, standard=self.standard)
on_run_category(value, cat_res) == RunResult(cat_res.raised, value, cat_res.code)

on_run_processed(pv, standard) ==
  IF pv.raised # "" THEN RunResult(pv.raised, 0, 0)
  ELSE on_run_category(CountOf(pv.rounded_3dp),
                       classify_six_bins(FromDecimal(CountOf(pv.rounded_3dp)),
                                         FromDecimal(standard)))

\* on_run up to the logging: raw = self.sim.next_value(), pv = process_value(raw),
\* then the classification
on_run_classify(standard, offset) ==
  on_run_processed(process_value(FloatOf(standard + offset)), standard)

SimRuns ==
  [standard \in SimStandards |->
     [offset \in SimOffsets |-> on_run_classify(standard, offset)]]

LiveInit ==
  /\ \E pr \in {"gui", "cli"} :
       /\ program = pr
       /\ IF pr = "cli"
          THEN \E port \in Ports, append \in BOOLEAN :
                 cli = [CliIdle EXCEPT !.pc = "start", !.port = port,
                                       !.lg = CsvLogger(append)]
          ELSE cli = CliIdle
  /\ \/ mw = MainWindow
     \/ /\ program = "gui"
        /\ \E standard \in SimStandards :       \* the setup dialog was accepted
             mw = [MainWindow EXCEPT !.session_started = TRUE, !.btn_run = TRUE,
                                     !.standard = standard]
  /\ workers = [w \in WorkerIds |-> SerialWorker]
  /\ events = <<>>
  /\ disk \in {<<>>, <<Header, Row(1, BlankCats, 0)>>}
  /\ lg = CsvLogger(TRUE)
  /\ call = Did("init", None, 0, 0, "")
  /\ onlyAppend = TRUE
  /\ ParseIdle
  /\ ProcIdle
  /\ BinsIdle
  /\ ClsIdle

Idle == UNCHANGED <<parseVars, procVars, binsVars, clsVars, lg, call, onlyAppend, program>>

\* MainWindow.on_connect: a click on the enabled connect button
on_connect(port) ==
  /\ program = "gui" /\ mw.btn_connect /\ mw.run.pc = "idle"
  /\ \E w \in WorkerIds :
       /\ workers[w].pc = "none" /\ \A o \in 1..(w-1) : workers[o].pc # "none"
       /\ IF mw.live_connected \/ port = ""
          THEN UNCHANGED <<mw, workers>>
          ELSE /\ workers' = [workers EXCEPT ![w].pc = "queued", ![w].thread = "running"]
               /\ mw' = [mw EXCEPT !.thread = w, !.worker = w,
                                   !.btn_connect = FALSE, !.btn_disconnect = TRUE]
  /\ UNCHANGED <<events, cli, disk>>
  /\ Idle

\* MainWindow.on_disconnect: a click on the enabled stop button.  stopAsked
\* records the request on the session that is running
on_disconnect ==
  /\ program = "gui" /\ mw.btn_disconnect /\ mw.run.pc = "idle"
  /\ workers' =
       [w \in WorkerIds |->
          LET stopped == IF w = mw.worker THEN [workers[w] EXCEPT !.running = FALSE]
                         ELSE workers[w]
          IN  IF stopped.pc \notin {"none", "done"}
              THEN [stopped EXCEPT !.stopAsked = TRUE] ELSE stopped]
  /\ mw' = [mw EXCEPT !.btn_disconnect = FALSE]
  /\ UNCHANGED <<events, cli, disk>>
  /\ Idle

\* MainWindow._on_live_status
on_live_status ==
  /\ mw.run.pc = "idle"
  /\ events # <<>> /\ Head(events).sig \in {"connected", "disconnected"}
  /\ mw' = IF Head(events).sig = "connected"
           THEN [mw EXCEPT !.live_connected = TRUE]
           ELSE [mw EXCEPT !.live_connected = FALSE, !.btn_connect = TRUE,
                           !.btn_disconnect = FALSE]
  /\ events' = Tail(events)
  /\ UNCHANGED <<workers, cli, disk>>
  /\ Idle

\* MainWindow._on_live_error: the message box
on_live_error ==
  /\ mw.run.pc = "idle"
  /\ events # <<>> /\ Head(events).sig = "error"
  /\ events' = Tail(events)
  /\ UNCHANGED <<mw, workers, cli, disk>>
  /\ Idle

\* worker.finished -> thread.quit (and worker.deleteLater)
on_worker_finished ==
  /\ mw.run.pc = "idle"
  /\ events # <<>> /\ Head(events).sig = "finished"
  /\ workers' = [workers EXCEPT ![Head(events).w].thread = "quitting"]
  /\ events' = Tail(events)
  /\ UNCHANGED <<mw, cli, disk>>
  /\ Idle

\* the thread leaves its event loop and emits QThread.finished
thread_finished(w) ==
  /\ workers[w].thread = "quitting"
  /\ workers' = [workers EXCEPT ![w].thread = "finished"]
  /\ events' = Append(events, Post("thread_finished", w))
  /\ UNCHANGED <<mw, cli, disk>>
  /\ Idle

\* MainWindow._on_thread_finished
on_thread_finished ==
  /\ mw.run.pc = "idle"
  /\ events # <<>> /\ Head(events).sig = "thread_finished"
  /\ mw' = [mw EXCEPT !.thread = 0, !.worker = 0]
  /\ events' = Tail(events)
  /\ UNCHANGED <<workers, cli, disk>>
  /\ Idle

\* MainWindow.on_run, a click on the enabled RUN button, up to the entry of
\* "with CsvLogger(self.cfg.logging) as log": an exception of process_value or
\* classify_six_bins leaves the handler, an unchecked box skips the logging, a
\* failure to open the file is swallowed by "except Exception: pass"
on_run(offset, checked, ok) ==
  /\ program = "gui" /\ mw.btn_run /\ mw.run.pc = "idle" /\ mw.runs < MaxRuns
  /\ \E r \in {SimRuns[mw.standard][offset]}, e \in {CsvLogger_enter(CsvLogger(TRUE), disk)} :
       IF r.raised = "" /\ checked /\ ok
       THEN /\ mw' = [mw EXCEPT !.runs = @ + 1,
                                !.run = [pc |-> "log", log |-> e.lg,
                                         value |-> Some(r.value), code |-> r.code]]
            /\ disk' = e.disk
       ELSE /\ mw' = [mw EXCEPT !.runs = @ + 1]
            /\ UNCHANGED disk
  /\ UNCHANGED <<workers, events, cli>>
  /\ Idle

\* MainWindow.on_run: log.log_categorized(...)
on_run_log ==
  /\ mw.run.pc = "log"
  /\ mw' = [mw EXCEPT !.run.pc = "exit",
                      !.run.log = log_categorized(mw.run.log, mw.run.value,
                                                  mw.run.code, 0).lg]
  /\ UNCHANGED <<workers, events, cli, disk>>
  /\ Idle

\* MainWindow.on_run: the with block is left and the logger closes its file
on_run_exit ==
  /\ mw.run.pc = "exit"
  /\ LET x == CsvLogger_exit(mw.run.log, disk)
     IN  /\ mw' = [mw EXCEPT !.run = RunIdle]
         /\ disk' = x.disk
  /\ UNCHANGED <<workers, events, cli>>
  /\ Idle

\* SerialWorker.start, first statement: self._running = True
start_running(w) ==
  /\ workers[w].pc = "queued"
  /\ workers' = [workers EXCEPT ![w].running = TRUE, ![w].pc = "open_serial"]
  /\ UNCHANGED <<mw, events, cli, disk>>
  /\ Idle

\* SerialWorker.start: managed_serial opens the port, or open_serial raises
start_open_serial(w, ok) ==
  /\ workers[w].pc = "open_serial"
  /\ workers' = IF ok THEN [workers EXCEPT ![w].ser = TRUE, ![w].pc = "open_log"]
                ELSE [workers EXCEPT ![w].failed = TRUE, ![w].pc = "except"]
  /\ UNCHANGED <<mw, events, cli, disk>>
  /\ Idle

\* SerialWorker.start: CsvLogger(self.cfg.logging).__enter__()
start_open_log(w, ok) ==
  /\ workers[w].pc = "open_log"
  /\ LET e == EnterLog(workers[w], disk, ok)
     IN  /\ workers' = [workers EXCEPT
                          ![w] = [e.s EXCEPT !.pc = IF ok THEN "connected" ELSE "except"]]
         /\ disk' = e.disk
  /\ UNCHANGED <<mw, events, cli>>
  /\ Idle

\* SerialWorker.start: self.status.emit("connected")
start_connected(w) ==
  /\ workers[w].pc = "connected"
  /\ workers' = [workers EXCEPT ![w].pc = "loop"]
  /\ events' = Append(events, Post("connected", w))
  /\ UNCHANGED <<mw, cli, disk>>
  /\ Idle

\* SerialWorker.start: "while self._running": the next readline begins, or the
\* loop and the with block are left.  lateReads counts the reads begun after a
\* stop was requested
start_loop(w) ==
  /\ workers[w].pc = "loop"
  /\ IF workers[w].running
     THEN /\ workers[w].stopAsked => workers[w].lateReads < ReadCap
          /\ workers' = [workers EXCEPT
                           ![w].pc = "reading",
                           ![w].lateReads = IF workers[w].stopAsked THEN @ + 1 ELSE @]
          /\ UNCHANGED disk
     ELSE LET x == LeaveWith(workers[w], disk)
          IN  /\ workers' = [workers EXCEPT ![w] = [x.s EXCEPT !.pc = "finally"]]
              /\ disk' = x.disk
  /\ UNCHANGED <<mw, events, cli>>
  /\ Idle

\* SerialWorker.start: readline returns and the loop body runs
start_read(w, outcome) ==
  /\ workers[w].pc = "reading"
  /\ IF LoopBody(outcome) = "continue"
     THEN /\ workers' = [workers EXCEPT ![w].pc = "loop"]
          /\ UNCHANGED disk
     ELSE LET x == LeaveWith(workers[w], disk)
          IN  /\ workers' = [workers EXCEPT
                               ![w] = [x.s EXCEPT !.pc = "except", !.failed = TRUE]]
              /\ disk' = x.disk
  /\ UNCHANGED <<mw, events, cli>>
  /\ Idle

\* SerialWorker.start: except Exception as e: self.error.emit(str(e))
start_except(w) ==
  /\ workers[w].pc = "except"
  /\ workers' = [workers EXCEPT ![w].pc = "finally", ![w].errored = TRUE]
  /\ events' = Append(events, Post("error", w))
  /\ UNCHANGED <<mw, cli, disk>>
  /\ Idle

\* SerialWorker.start: finally: status.emit("disconnected"); finished.emit()
start_finally(w) ==
  /\ workers[w].pc = "finally"
  /\ workers' = [workers EXCEPT ![w].pc = "done"]
  /\ events' = events \o <<Post("disconnected", w), Post("finished", w)>>
  /\ UNCHANGED <<mw, cli, disk>>
  /\ Idle

\* run.py main up to the try: without a port it returns 2
main_start ==
  /\ cli.pc = "start"
  /\ cli' = IF cli.port = ""
            THEN [cli EXCEPT !.pc = "done", !.ret = 2, !.failed = TRUE]
            ELSE [cli EXCEPT !.pc = "open_serial"]
  /\ UNCHANGED <<mw, workers, events, disk>>
  /\ Idle

\* run.py main: managed_serial opens the port, or raises and main returns 1
main_open_serial(ok) ==
  /\ cli.pc = "open_serial"
  /\ cli' = IF ok THEN [cli EXCEPT !.ser = TRUE, !.pc = "open_log"]
            ELSE [cli EXCEPT !.failed = TRUE, !.ret = 1, !.pc = "done"]
  /\ UNCHANGED <<mw, workers, events, disk>>
  /\ Idle

\* run.py main: CsvLogger(cfg.logging).__enter__()
main_open_log(ok) ==
  /\ cli.pc = "open_log"
  /\ LET e == EnterLog(cli, disk, ok)
     IN  /\ cli' = IF ok THEN [e.s EXCEPT !.pc = "reading"]
                   ELSE [e.s EXCEPT !.pc = "done", !.ret = 1]
         /\ disk' = e.disk
  /\ UNCHANGED <<mw, workers, events>>
  /\ Idle

\* run.py main: "while True": readline returns and the loop body runs
main_read(outcome) ==
  /\ cli.pc = "reading"
  /\ IF LoopBody(outcome) = "continue"
     THEN UNCHANGED <<cli, disk>>
     ELSE LET x == LeaveWith(cli, disk)
          IN  /\ cli' = [x.s EXCEPT !.pc = "done", !.failed = TRUE, !.ret = 1]
              /\ disk' = x.disk
  /\ UNCHANGED <<mw, workers, events>>
  /\ Idle

\* run.py main: Ctrl+C inside the try: except KeyboardInterrupt: return 0
main_interrupt ==
  /\ cli.pc \in {"open_serial", "open_log", "reading"}
  /\ LET x == LeaveWith(cli, disk)
     IN  /\ cli' = [x.s EXCEPT !.pc = "done", !.ret = 0]
         /\ disk' = x.disk
  /\ UNCHANGED <<mw, workers, events>>
  /\ Idle

Next ==
  \/ \E port \in Ports : on_connect(port)
  \/ on_disconnect
  \/ on_live_status
  \/ on_live_error
  \/ on_worker_finished
  \/ on_thread_finished
  \/ \E offset \in SimOffsets, checked \in BOOLEAN, ok \in BOOLEAN : on_run(offset, checked, ok)
  \/ on_run_log
  \/ on_run_exit
  \/ \E w \in WorkerIds :
       \/ thread_finished(w)
       \/ start_running(w)
       \/ \E ok \in BOOLEAN : start_open_serial(w, ok)
       \/ \E ok \in BOOLEAN : start_open_log(w, ok)
       \/ start_connected(w)
       \/ start_loop(w)
       \/ \E outcome \in ReadOutcomes : start_read(w, outcome)
       \/ start_except(w)
       \/ start_finally(w)
  \/ main_start
  \/ \E ok \in BOOLEAN : main_open_serial(ok)
  \/ \E ok \in BOOLEAN : main_open_log(ok)
  \/ \E outcome \in ReadOutcomes : main_read(outcome)
  \/ main_interrupt

Spec == LiveInit /\ [][Next]_vars

----------------------------------------------------------------------------
(* The classifier claims *)

\* the band the inequalities of the specification select for the decimals v and
\* standard, the first in the order 1..6; 0 when none holds
MathBand(v, standard) ==
  LET d == v - standard
  IN  IF d >= 800 THEN 1
      ELSE IF 300 <= d /\ d <= 700 THEN 2
      ELSE IF -200 <= d /\ d <= 200 THEN 3
      ELSE IF -700 <= d /\ d <= -300 THEN 4
      ELSE IF -1200 <= d /\ d <= -800 THEN 5
      ELSE IF d <= -1300 THEN 6
      ELSE 0

Dist(a, b) == IF a >= b THEN a - b ELSE b - a

\* the category whose centre is nearest to v, the earlier of 2, 3, 4, 5 on a tie
MathNearest(v, standard) ==
  LET centre(c) == standard + 500 * (3 - c)
  IN  CHOOSE c \in 2..5 :
        /\ \A o \in 2..5 : Dist(v, centre(c)) <= Dist(v, centre(o))
        /\ \A o \in 2..(c-1) : Dist(v, centre(c)) < Dist(v, centre(o))

\* C2: for every standard and value classify_six_bins returns one of the six
\* categories, and never raises
C2_Exhaustive ==
  bins.pc = "done" => bins.res.raised = "" /\ bins.res.code \in 1..6

\* C3: a value no band holds is given the category of the nearest of the centres
\* S+0.005, S, S-0.005, S-0.010, the earlier one on a tie, never category 1 or 6
C3_GapNearestCentre ==
  (bins.pc = "done" /\ MathBand(bins.v, bins.standard) = 0) =>
     /\ bins.res.raised = ""
     /\ bins.res.code = MathNearest(bins.v, bins.standard)
     /\ bins.res.code \notin {1, 6}

\* C4: a value for which a band inequality holds (bounds inclusive) is given the
\* category of the first such band in the order 1..6
C4_FirstBandWins ==
  (bins.pc = "done" /\ MathBand(bins.v, bins.standard) # 0) =>
     /\ bins.res.raised = ""
     /\ bins.res.code = MathBand(bins.v, bins.standard)

NoNumeric == <<"No numeric value parsed">>

\* C5 as stated: a missing value is UNKNOWN, "no numeric value parsed", in every mode
C5_NoneUnknownEveryMode ==
  (cls.pc = "done" /\ cls.value = None) =>
     cls.res.verdict = "UNKNOWN" /\ cls.res.reason = NoNumeric

\* C5 amended: a missing value is UNKNOWN, "no numeric value parsed", in every mode
\* but "none", whatever the operator; in mode "none" the verdict is NONE
C5_NoneUnknown ==
  (cls.pc = "done" /\ cls.value = None) =>
     IF cls.mode = "none"
     THEN cls.res.verdict = "NONE"
     ELSE cls.res.verdict = "UNKNOWN" /\ cls.res.reason = NoNumeric

C5_Witness ==
  /\ cls.pc = "done" /\ cls.value = None /\ cls.mode = "window"
  /\ cls.res.verdict = "UNKNOWN"

\* the comparison the specification gives each operator
OperatorHolds(op, v, low, high) ==
  CASE op = "lt" -> v < low
    [] op = "le" -> v <= low
    [] op = "gt" -> v > high
    [] op = "ge" -> v >= high
    [] op = "eq" -> v = low
    [] op = "between" -> low <= v /\ v <= high

\* C7: in mode threshold with a value, the verdict is PASS exactly when the
\* operator's comparison holds and FAIL otherwise; between includes both ends
C7_ThresholdOperators ==
  (/\ cls.pc = "done" /\ cls.mode = "threshold" /\ cls.value # None
   /\ cls.operator \in KnownOperators) =>
     cls.res.verdict =
       IF OperatorHolds(cls.operator, cls.value[1], cls.low, cls.high)
       THEN "PASS" ELSE "FAIL"

C7_Witness ==
  /\ cls.pc = "done" /\ cls.mode = "threshold" /\ cls.operator = "between"
  /\ cls.low = 10000 /\ cls.high = 12000 /\ cls.value = Some(12000)
  /\ cls.res.verdict = "PASS"

C8_Common ==
  /\ cls.res.verdict \in {"PASS", "FAIL", "UNKNOWN", "NONE"}
  /\ cls.mode = "none" => cls.res.verdict = "NONE"
  /\ cls.res.verdict \in {"PASS", "FAIL"} =>
       cls.mode = "threshold" /\ Lower(cls.operator) \in KnownOperators

\* C8 as stated: an unknown operator or mode gives UNKNOWN with a reason naming it
C8_UnknownNamesCulprit ==
  cls.pc = "done" =>
    /\ C8_Common
    /\ (cls.mode = "threshold" /\ Lower(cls.operator) \notin KnownOperators) =>
         /\ cls.res.verdict = "UNKNOWN"
         /\ cls.res.reason = <<"Unknown operator", cls.operator>>
    /\ cls.mode \notin {"none", "threshold"} =>
         /\ cls.res.verdict = "UNKNOWN"
         /\ cls.res.reason = <<"Unknown mode", cls.mode>>

\* C8 amended: the verdict is one of the four; mode none gives NONE; a present value
\* with an unknown operator (mode threshold) or an unknown mode gives UNKNOWN with
\* a reason naming it; a missing value outside mode none gives UNKNOWN with the
\* reason "No numeric value parsed"; PASS and FAIL arise only in mode threshold
\* with a known operator
C8_Verdicts ==
  cls.pc = "done" =>
    /\ C8_Common
    /\ (/\ cls.mode = "threshold" /\ cls.value # None
        /\ Lower(cls.operator) \notin KnownOperators) =>
         /\ cls.res.verdict = "UNKNOWN"
         /\ cls.res.reason = <<"Unknown operator", cls.operator>>
    /\ (cls.mode \notin {"none", "threshold"} /\ cls.value # None) =>
         /\ cls.res.verdict = "UNKNOWN"
         /\ cls.res.reason = <<"Unknown mode", cls.mode>>
    /\ (cls.mode # "none" /\ cls.value = None) =>
         /\ cls.res.verdict = "UNKNOWN"
         /\ cls.res.reason = NoNumeric

C8_Witness ==
  /\ cls.pc = "done" /\ cls.mode = "threshold" /\ cls.operator = "ne"
  /\ cls.value # None
  /\ cls.res = Result("UNKNOWN", <<"Unknown operator", "ne">>)

----------------------------------------------------------------------------
(* The logger claims *)

\* the file as a reader of the path will find it once the buffer is written out
FileView == disk \o lg.buf

\* one header, then data rows numbered 1, 2, 3, ...
Continuous(f) ==
  f # <<>> => /\ f[1].hdr
              /\ \A i \in 2..Len(f) : ~f[i].hdr /\ f[i].no = i - 1

\* C1: through any sequence of append-mode sessions on one path, starting from an
\* empty file, the file is one header line followed by rows numbered 1, 2, 3, ...
\* without gap, repeat or restart
C1_IndexContinuity ==
  onlyAppend => /\ Continuous(FileView)
                /\ lg.file => FileView # <<>>

\* C6: a call of log_categorized on an open logger appends exactly one row, numbered
\* with the sequence number, and advances that number by one; the row's category
\* cells are blank but for cell category_code when the value is present and the
\* code is one of 1..6
C6_OneRowOneColumn ==
  [][(call'.op = "log" /\ lg.writer) =>
       /\ call'.raised = ""
       /\ FileView' = Append(FileView, FileView'[Len(FileView')])
       /\ lg'.index = lg.index + 1
       /\ LET row == FileView'[Len(FileView')]
              populated == {c \in 1..6 : row.cats[c] # Blank}
          IN  /\ ~row.hdr /\ row.no = lg.index
              /\ populated =
                   IF call'.value # None /\ call'.code \in 1..6
                   THEN {call'.code} ELSE {}
              /\ \A c \in populated : row.cats[c] = <<call'.value[1] \div 100>>
     ]_vars

C6_Witness ==
  /\ call.op = "log" /\ call.raised = "" /\ call.value = Some(11000) /\ call.code = 6
  /\ FileView[Len(FileView)].cats = [BlankCats EXCEPT ![6] = <<110>>]
  /\ FileView[Len(FileView)].no = 2

----------------------------------------------------------------------------
(* The session claims *)

\* C9: when a live session has ended, however it ended, its CsvLogger's file is
\* closed and cleared and its serial port is closed, and a failure was reported:
\* the worker emitted error, run.py returned a non-zero code
C9_HandlesReleased ==
  /\ \A w \in WorkerIds :
       workers[w].pc \in {"finally", "done"} =>
         /\ ~workers[w].ser
         /\ ~workers[w].lg.file /\ ~workers[w].lg.writer
         /\ workers[w].failed => workers[w].errored
  /\ cli.pc = "done" =>
         /\ ~cli.ser
         /\ ~cli.lg.file /\ ~cli.lg.writer
         /\ cli.failed => cli.ret \in {1, 2}

\* a session that failed inside the loop, with both handles open, has ended
C9_Witness ==
  \E w \in WorkerIds :
    /\ workers[w].pc = "done" /\ workers[w].failed /\ workers[w].errored
    /\ mw.live_connected
    /\ disk = <<Header>>

\* C10: once a stop is requested of a launched session, its loop starts at most
\* one further blocking read
C10_StopEndsLoop ==
  \A w \in WorkerIds : workers[w].lateReads <= 1

----------------------------------------------------------------------------
(* The parser claims *)

\* the line as text, without the white space at its two ends
Trimmed(line) ==
  LET t == IF line.bytes THEN decode(line.data) ELSE line.data
      inner == {i \in 1..Len(t) : t[i] \notin Space}
  IN  IF inner = {} THEN <<>>
      ELSE SubSeq(t, CHOOSE i \in inner : \A o \in inner : i <= o,
                     CHOOSE i \in inner : \A o \in inner : i >= o)

\* a text holds a decimal numeral exactly when it holds a digit
HasNumeral(text) == \E i \in 1..Len(text) : IsDigit(text[i])

\* C11: parse_line raises for no line: a line that is empty once decoded and
\* trimmed gives no Measurement, a line without a numeral gives a Measurement
\* with value None whose raw is the trimmed text, and a line with a numeral
\* gives a Measurement whose value is not None.
C11_NoNumberIsNoFailure ==
  parse.pc = "done" =>
    LET text == Trimmed(parse.line)
    IN  /\ text = <<>> => parse.res = None
        /\ text # <<>> /\ ~HasNumeral(text) =>
             /\ parse.res # None
             /\ parse.res[1].value = None
             /\ parse.res[1].raw = text
        /\ HasNumeral(text) => parse.res # None /\ parse.res[1].value # None

\* bytes that are no valid UTF-8 were parsed: a Measurement without a value
C11_Witness ==
  /\ parse.pc = "done" /\ parse.line.bytes
  /\ parse.res # None /\ parse.res[1].value = None
  /\ \E i \in 1..Len(parse.res[1].raw) : parse.res[1].raw[i] = "U+FFFD"

\* optional sign, digits, optional "." and digits
IsNumeral(s) ==
  /\ s # <<>>
  /\ LET b == IF s[1] \in Signs THEN Tail(s) ELSE s
         dots == {i \in 1..Len(b) : b[i] = "."}
     IN  /\ b # <<>>
         /\ Cardinality(dots) <= 1
         /\ \A i \in dots : 1 < i /\ i < Len(b)
         /\ \A i \in 1..Len(b) : i \in dots \/ IsDigit(b[i])

\* the leftmost substring that is a numeral, the longest of those that start there
LeftmostNumeral(text) ==
  LET found == {p \in (1..Len(text)) \X (1..Len(text)) :
                  p[1] <= p[2] /\ IsNumeral(SubSeq(text, p[1], p[2]))}
      first == CHOOSE p \in found :
                 \A o \in found : p[1] < o[1] \/ (p[1] = o[1] /\ p[2] >= o[2])
  IN  SubSeq(text, first[1], first[2])

\* alphabetic characters: the letters, the Greek mu and the I with circumflex
IsAlpha(c) == c \in Letters \cup {"U+03BC", "U+00CE"}

\* the run of alphabetic characters that ends the text
RECURSIVE TrailingAlpha(_)
TrailingAlpha(text) ==
  IF text # <<>> /\ IsAlpha(text[Len(text)])
  THEN TrailingAlpha(SubSeq(text, 1, Len(text) - 1)) \o <<text[Len(text)]>>
  ELSE <<>>

\* C12: for a line with a numeral, the value is the first (leftmost) substring
\* of the form optional sign, digits, optional "." and digits, and the unit is
\* the run of alphabetic characters at the very end of the trimmed text when
\* there is one, otherwise the expected unit.
C12_FirstNumeralTrailingUnit ==
  parse.pc = "done" /\ HasNumeral(Trimmed(parse.line)) =>
    LET text == Trimmed(parse.line)
    IN  /\ parse.res # None
        /\ parse.res[1].value = Some(float(LeftmostNumeral(text)))
        /\ parse.res[1].unit = IF TrailingAlpha(text) # <<>> THEN Some(TrailingAlpha(text))
                               ELSE parse.expected_unit

----------------------------------------------------------------------------
(* The pipeline claims *)

\* x cut after n decimals, toward zero
Cut(x, n) ==
  LET k == Max(0, (0 - n) - x.exp)
  IN  Dec(x.neg, SubSeq(x.digs, 1, Max(0, Len(x.digs) - k)), x.exp + k)

\* x rounded at n decimals, a next digit of 5 or more away from zero
HalfUp(x, n) ==
  LET k == Max(0, (0 - n) - x.exp)
      len == Len(x.digs)
      kept == SubSeq(x.digs, 1, Max(0, len - k))
      next == IF k = 0 \/ k > len THEN 0 ELSE x.digs[len - k + 1]
  IN  Dec(x.neg, IF next >= 5 THEN IncDigs(kept) ELSE kept, x.exp + k)

\* |a| <= |b|
MagLe(a, b) ==
  LET e == IF a.exp <= b.exp THEN a.exp ELSE b.exp
      da == StripLeading(a.digs \o Zeros(a.exp - e))
      db == StripLeading(b.digs \o Zeros(b.exp - e))
      differ == {i \in 1..Len(da) : da[i] # db[i]}
  IN  IF Len(da) # Len(db) THEN Len(da) < Len(db)
      ELSE differ = {} \/ LET i == CHOOSE d \in differ : \A o \in differ : d <= o
                          IN  da[i] < db[i]

\* a == b of two floats: 0.0 and -0.0 are equal
FloatEq(a, b) == a = b \/ (a.digs = <<>> /\ b.digs = <<>>)

\* C13: for every reading fixed at 5 decimals, process_value returns raw_5dp,
\* cut_4dp = raw_5dp truncated toward zero at 4 decimals and rounded_3dp = the
\* half-up rounding at 3 decimals of cut_4dp.
C13_CutThenRound ==
  proc.fn = "process_value" /\ proc.pc # "call" =>
    /\ proc.out.raised = ""
    /\ FloatEq(proc.out.raw_5dp, proc.x)
    /\ FloatEq(proc.out.cut_4dp, Cut(proc.x, 4))
    /\ FloatEq(proc.out.rounded_3dp, HalfUp(Cut(proc.x, 4), 3))

\* the pipeline's rounded_3dp and the raw value rounded directly differ on x
OrderMatters(x) ==
  LET pv == process_value(x)
      direct == round_half_up(pv.raw_5dp, 3)
  IN  pv.raised = "" /\ direct.raised = "" /\ ~FloatEq(pv.rounded_3dp, direct.v)

C15_TiesAwayFromZero ==
  proc.fn = "round_half_up" /\ proc.pc = "compared" /\ proc.x.exp >= 0 - (proc.n + 1) =>
    /\ proc.out.raised = "" /\ proc.again.raised = ""
    /\ FloatEq(proc.again.v, Negate(proc.out.v))
    /\ FloatEq(proc.out.v, HalfUp(proc.x, proc.n))

\* C16: truncate_to_decimals applied twice gives what it gives once, and the
\* result has the sign of x and a magnitude no larger than that of x.
C16_TruncateIdempotent ==
  proc.fn = "truncate_to_decimals" /\ proc.pc = "compared" =>
    /\ FloatEq(proc.again.v, proc.out.v)
    /\ proc.out.v.neg = proc.x.neg
    /\ MagLe(proc.out.v, proc.x)

----------------------------------------------------------------------------
(* The live loop and the owners of the log file *)

ParsedLines == {"text", "reading"}

\* C17: in SerialWorker.start and in the CLI main, a received line that parses to
\* a Measurement is appended to the log as exactly one row and the loop goes on
\* to the next read; the session does not end because a line was received
C17_ParsedLineIsLogged ==
  [][/\ \A w \in WorkerIds : \A outcome \in ParsedLines :
          start_read(w, outcome) =>
             /\ workers'[w].pc = "loop"
             /\ Len(workers'[w].lg.buf) = Len(workers[w].lg.buf) + 1
     /\ \A outcome \in ParsedLines :
          main_read(outcome) =>
             /\ cli'.pc = "reading"
             /\ Len(cli'.lg.buf) = Len(cli.lg.buf) + 1]_vars

\* the loggers that hold the log path open: those of the workers, and on_run's
Holders ==
  Cardinality({w \in WorkerIds : workers[w].lg.file})
    + (IF mw.run.log.file THEN 1 ELSE 0)

\* C18: in every interleaving of connect, disconnect and RUN with logging
\* enabled, at most one CsvLogger holds the log path open at a time
C18_ExclusiveLogFile == Holders <= 1

\* C19: for a value and a standard that are both multiples of 0.001 one of the
\* six bands holds, classify_six_bins returns it, and the nearest-centre
\* resolution is not reached
C19_DirectPathNeverGap ==
  (bins.pc = "done" /\ bins.v % 100 = 0 /\ bins.standard % 100 = 0) =>
     /\ MathBand(bins.v, bins.standard) # 0
     /\ bins.res.raised = ""
     /\ bins.res.how = "band"
     /\ bins.res.code = MathBand(bins.v, bins.standard)

====
